---- MODULE Spec2Model ----
(***************************************************************************)
(* Model of the PECMAC6 I2C current-monitor driver (src/lib/PECMAC6.py).   *)
(* One driver object talks to one bus.  A query (get_info, get_current,    *)
(* get_calibration) is a strictly sequential run of bus operations; the    *)
(* model gives one action per bus operation and per decoding step, and     *)
(* the bus (an external collaborator) answers nondeterministically: a      *)
(* write or a read may raise OSError, and a read may hand back a buffer.   *)
(***************************************************************************)
EXTENDS Integers, Sequences, FiniteSets, TLC

VARIABLES
    i2c,        \* self.i2c: the bus handle
    addr,       \* self.addr
    channels,   \* self.channels
    pc,         \* position inside the running query ("idle" between queries)
    op,         \* the running query: "info", "current", "calibration"
    start,      \* argument start of the running query
    end,        \* argument end of the running query
    command,    \* local `command`: the frame built by the query
    rx,         \* local id_data / current_data / calibration_data
    result,     \* how the query ended: value returned or exception raised
    trace,      \* bus operations (writeto, sleep, readfrom) of the running query
    errlog,     \* self.log.error records of the running query
    nverify,    \* history: calls of __verify_checksum made by the running query
    last        \* history: the most recent completed query, as its caller saw it

vars == <<i2c, addr, channels, pc, op, start, end, command, rx, result, trace, errlog,
          nverify, last>>

----------------------------------------------------------------------------
(* Bounds of the model *)

\* start and end are drawn from 0..MaxChannel
MaxChannel == 7
\* a read may hand back a buffer up to MaxShort bytes shorter than asked
MaxShort == 2

----------------------------------------------------------------------------
(* Program constants *)

PECMAC125A_DEFAULT_ADDRESS == 42
PECMAC125A_COMMAND_1 == 1
PECMAC125A_COMMAND_2 == 2
PECMAC125A_COMMAND_3 == 3
PECMAC125A_HEADER_BYTE_1 == 146
PECMAC125A_HEADER_BYTE_2 == 106
PECMAC125A_RESERVED == 0
PECMAC125A_SCALE == 1
DefaultChannels == 6
InfoLength == 7

Ops == {"info", "current", "calibration"}

----------------------------------------------------------------------------
(* Helpers on byte sequences *)

RECURSIVE SumSeq(_)
SumSeq(s) == IF s = <<>> THEN 0 ELSE s[1] + SumSeq(Tail(s))

\* Python indexing data[i], i >= 0
At(data, i) == data[i + 1]

\* Python data[k:] is not used; data[:k]
Prefix(data, k) == SubSeq(data, 1, k)

----------------------------------------------------------------------------
(* Frame codec *)

\* faulty variant of CalculateChecksum: the mask is forgotten
CalculateChecksumUnmasked(cmd) == SumSeq(cmd)

\* __calculate_checksum: sum of the bytes, then checksum &= 0b11111111
CalculateChecksum(cmd) == SumSeq(cmd) % 256

\* command = [H1, H2, code, a, b, RESERVED, RESERVED]; command.append(checksum)
BuildCommand(code, a, b) ==
    LET body == <<PECMAC125A_HEADER_BYTE_1, PECMAC125A_HEADER_BYTE_2, code, a, b,
                  PECMAC125A_RESERVED, PECMAC125A_RESERVED>>
    IN  Append(body, CalculateChecksum(body))

\* the frame each query builds
CommandOf(o, s, e) ==
    CASE o = "info"        -> BuildCommand(PECMAC125A_COMMAND_2, PECMAC125A_RESERVED,
                                           PECMAC125A_RESERVED)
      [] o = "current"     -> BuildCommand(PECMAC125A_COMMAND_1, s, e)
      [] o = "calibration" -> BuildCommand(PECMAC125A_COMMAND_3, s, e)

\* __verify_checksum: expected = sum of data[0..len-2] (never masked);
\* received = int(data[-1])
Expected(data) == SumSeq(Prefix(data, Len(data) - 1))
Received(data) == data[Len(data)]

\* `expected is not received`: both are ints; equal values in 0..255 are the
\* same object, and a sum above 255 never equals a byte
Mismatched(data) == Expected(data) # Received(data)

\* the records __verify_checksum adds to the error log
VerifyChecksum(data) ==
    IF Mismatched(data)
    THEN <<[msg |-> "Mismatched Checksum", expected |-> Expected(data),
            received |-> Received(data)]>>
    ELSE <<>>

----------------------------------------------------------------------------
(* Response lengths and decoding *)

\* faulty variant of ReadLength: the checksum byte is not asked for
ReadLengthNoChecksum(o, s, e) ==
    CASE o = "info"        -> InfoLength
      [] o = "current"     -> ((e - s) + 1) * 3
      [] o = "calibration" -> ((e - s) + 1) * 2

\* nbytes handed to readfrom
ReadLength(o, s, e) ==
    CASE o = "info"        -> InfoLength
      [] o = "current"     -> (((e - s) + 1) * 3) + 1
      [] o = "calibration" -> (((e - s) + 1) * 2) + 1

\* "SENSOR_{}".format(n)
SensorKey(n) == <<"SENSOR_", n>>

\* float(x) of a number num/den; every value here is below 2^24 in magnitude
\* and is represented exactly
Float(num, den) == [num |-> num, den |-> den]

\* faulty variant of CurrentValue: the high byte is weighted 65535
CurrentValueOffByOne(msb1, msb, lsb) ==
    Float((msb1 * 65535 + msb * 256) * PECMAC125A_SCALE + lsb, PECMAC125A_SCALE)

\* msb1 * 65536 + msb * 256 + lsb / PECMAC125A_SCALE
CurrentValue(msb1, msb, lsb) ==
    Float((msb1 * 65536 + msb * 256) * PECMAC125A_SCALE + lsb, PECMAC125A_SCALE)

\* faulty variant of CalibrationValue: the two bytes are taken little-endian
CalibrationValueSwapped(msb, lsb) == Float((lsb * 256) + msb, 1)

\* (msb * 256) + lsb
CalibrationValue(msb, lsb) == Float((msb * 256) + lsb, 1)

\* faulty variant of ChannelOffsets: range(0, end-start), the last channel is lost
ChannelOffsetsShort(s, e) == 0 .. (e - s - 1)

\* range(0, (end-start)+1)
ChannelOffsets(s, e) == 0 .. (e - s)

\* largest index the decoding loop touches, -1 when the loop is empty
MaxIndex(o, s, e) ==
    CASE o = "info"        -> 2
      [] o = "current"     -> IF e < s THEN -1 ELSE 2 + (e - s) * 3
      [] o = "calibration" -> IF e < s THEN -1 ELSE 1 + (e - s) * 2

\* faulty variant of DecodeCurrent: the key is formatted from i, not start+i
DecodeCurrentKeyedByOffset(data, s, e) ==
    [k \in {SensorKey(i) : i \in ChannelOffsets(s, e)} |->
        LET i == k[2]
        IN  CurrentValue(At(data, i * 3), At(data, 1 + i * 3), At(data, 2 + i * 3))]

\* the dict built by the loop of get_current
DecodeCurrent(data, s, e) ==
    [k \in {SensorKey(s + i) : i \in ChannelOffsets(s, e)} |->
        LET i == k[2] - s
        IN  CurrentValue(At(data, i * 3), At(data, 1 + i * 3), At(data, 2 + i * 3))]

\* the dict built by the loop of get_calibration
DecodeCalibration(data, s, e) ==
    [k \in {SensorKey(s + i) : i \in ChannelOffsets(s, e)} |->
        LET i == k[2] - s
        IN  CalibrationValue(At(data, i * 2), At(data, 1 + i * 2))]

\* (typeOfSensor, maxCurrent, noOfChannel)
DecodeInfo(data) == <<At(data, 0), At(data, 1), At(data, 2)>>

----------------------------------------------------------------------------
(* How a query ends *)

NoResult == [kind |-> "pending", exc |-> "", val |-> <<>>]
ReturnNone == [kind |-> "none", exc |-> "", val |-> <<>>]
ReturnValue(k, v) == [kind |-> k, exc |-> "", val |-> v]
Raised(e) == [kind |-> "raised", exc |-> e, val |-> <<>>]

\* an OSError reaches `except OSError` and becomes None
CaughtOSError == ReturnNone

\* OSError raised by readfrom: get_info and get_current read inside the try;
\* get_calibration reads after its try block has ended
ReadOSError(o) == IF o = "calibration" THEN Raised("OSError") ELSE CaughtOSError

----------------------------------------------------------------------------
(* The bus *)

WriteEvent(a, data, ok) ==
    [kind |-> "writeto", addr |-> a, data |-> data, nbytes |-> Len(data), ok |-> ok]
SleepEvent ==
    [kind |-> "sleep", addr |-> 0, data |-> <<>>, nbytes |-> 0, ok |-> TRUE]
ReadEvent(a, n, ok) ==
    [kind |-> "readfrom", addr |-> a, data |-> <<>>, nbytes |-> n, ok |-> ok]

\* bytes the simulated device answers with
ByteVals == {0, 3, 232, 255}
Bases == ByteVals \X ByteVals \X ByteVals

\* data byte j (0-based) of an answer built on base
DataByte(base, j) == (base[(j % 3) + 1] + 7 * (j \div 3)) % 256

\* an n-byte answer: n-1 data bytes and a trailing byte, the modulo-256
\* sum of the data bytes plus skew
Response(n, base, skew) ==
    LET data == [j \in 1 .. (n - 1) |-> DataByte(base, j - 1)]
    IN  Append(data, (SumSeq(data) + skew) % 256)

----------------------------------------------------------------------------
(* Initial state: after __init__ *)

\* I2C(bus, pins=pins) with the defaults bus=0, pins=('P9', 'P10')
BusHandle == [bus |-> 0, pins |-> <<"P9", "P10">>]

\* no query has completed yet
NoEarlier ==
    [valid |-> FALSE, op |-> "info", start |-> 0, end |-> 0, oks |-> <<>>, rx |-> <<>>,
     command |-> <<>>, result |-> NoResult]

Init ==
    /\ i2c = BusHandle
    /\ addr = PECMAC125A_DEFAULT_ADDRESS
    /\ channels = DefaultChannels
    /\ pc = "idle"
    /\ op = "info"
    /\ start = 0
    /\ end = 0
    /\ command = <<>>
    /\ rx = <<>>
    /\ result = NoResult
    /\ trace = <<>>
    /\ errlog = <<>>
    /\ nverify = 0
    /\ last = NoEarlier

----------------------------------------------------------------------------
(* Actions *)

\* faulty variant of Call: the command list outlives the call and each query
\* appends to the list the query before it left
CallSharedList(o, s, e) ==
    /\ pc = "idle"
    /\ op' = o
    /\ start' = s
    /\ end' = e
    /\ command' = IF last.valid /\ last.command # <<>>
                  THEN Append(last.command, CalculateChecksum(last.command))
                  ELSE CommandOf(o, s, e)
    /\ rx' = <<>>
    /\ result' = NoResult
    /\ trace' = <<>>
    /\ errlog' = <<>>
    /\ nverify' = 0
    /\ pc' = "write"
    /\ UNCHANGED <<i2c, addr, channels, last>>

\* a query is called: its command frame is built
Call(o, s, e) ==
    /\ pc = "idle"
    /\ op' = o
    /\ start' = s
    /\ end' = e
    /\ command' = CommandOf(o, s, e)
    /\ rx' = <<>>
    /\ result' = NoResult
    /\ trace' = <<>>
    /\ errlog' = <<>>
    /\ nverify' = 0
    /\ pc' = "write"
    /\ UNCHANGED <<i2c, addr, channels, last>>

\* self.i2c.writeto(self.addr, bytes(command)) succeeds
WriteOk ==
    /\ pc = "write"
    /\ trace' = Append(trace, WriteEvent(addr, command, TRUE))
    /\ pc' = "sleep"
    /\ UNCHANGED <<i2c, addr, channels, last, nverify, op, start, end, command, rx, result, errlog>>

\* faulty variant of WriteFault: the OSError is logged and the query goes on
WriteFaultContinues ==
    /\ pc = "write"
    /\ trace' = Append(trace, WriteEvent(addr, command, FALSE))
    /\ errlog' = Append(errlog, [msg |-> "OSError", expected |-> 0, received |-> 0])
    /\ pc' = "sleep"
    /\ UNCHANGED <<i2c, addr, channels, last, nverify, op, start, end, command, rx, result>>

\* writeto raises OSError: logged, the query returns None
WriteFault ==
    /\ pc = "write"
    /\ trace' = Append(trace, WriteEvent(addr, command, FALSE))
    /\ errlog' = Append(errlog, [msg |-> "OSError", expected |-> 0, received |-> 0])
    /\ result' = CaughtOSError
    /\ pc' = "done"
    /\ UNCHANGED <<i2c, addr, channels, last, nverify, op, start, end, command, rx>>

\* faulty variant of Sleep: the read is issued without the settle delay
SleepSkipped ==
    /\ pc = "sleep"
    /\ pc' = "read"
    /\ UNCHANGED <<i2c, addr, channels, last, nverify, op, start, end, command, rx, result, trace, errlog>>

\* time.sleep(0.5)
Sleep ==
    /\ pc = "sleep"
    /\ trace' = Append(trace, SleepEvent)
    /\ pc' = "read"
    /\ UNCHANGED <<i2c, addr, channels, last, nverify, op, start, end, command, rx, result, errlog>>

\* faulty variant of AfterRead: a range query starts a further cycle after its read
AfterReadRewrite(o) == IF o = "info" THEN "decode" ELSE "write"

\* faulty variant of AfterRead: no query verifies the checksum
AfterReadSkipVerify(o) == "decode"

\* after a read: get_info decodes at once, the others verify the checksum
AfterRead(o) == IF o = "info" THEN "decode" ELSE "verify"

\* readfrom returns a buffer, short bytes shorter than asked
ReadOk(base, skew, short) ==
    /\ pc = "read"
    /\ ReadLength(op, start, end) >= 1
    /\ short <= ReadLength(op, start, end)
    /\ trace' = Append(trace, ReadEvent(addr, ReadLength(op, start, end), TRUE))
    /\ rx' = Prefix(Response(ReadLength(op, start, end), base, skew),
                    ReadLength(op, start, end) - short)
    /\ pc' = AfterRead(op)
    /\ UNCHANGED <<i2c, addr, channels, last, nverify, op, start, end, command, result, errlog>>

\* readfrom raises OSError
ReadFault ==
    /\ pc = "read"
    /\ ReadLength(op, start, end) >= 1
    /\ trace' = Append(trace, ReadEvent(addr, ReadLength(op, start, end), FALSE))
    /\ errlog' = IF op = "calibration" THEN errlog
                 ELSE Append(errlog, [msg |-> "OSError", expected |-> 0, received |-> 0])
    /\ result' = ReadOSError(op)
    /\ pc' = "done"
    /\ UNCHANGED <<i2c, addr, channels, last, nverify, op, start, end, command, rx>>

\* readfrom is handed a negative length (end < start - 1): the port rejects
\* it with an exception, which may or may not be an OSError
ReadBadLength ==
    /\ pc = "read"
    /\ ReadLength(op, start, end) < 0
    /\ trace' = Append(trace, ReadEvent(addr, ReadLength(op, start, end), FALSE))
    /\ \E r \in {Raised("ValueError"), ReadOSError(op)} : result' = r
    /\ pc' = "done"
    /\ UNCHANGED <<i2c, addr, channels, last, nverify, op, start, end, command, rx, errlog>>

\* faulty variant of Verify: a mismatch ends the query with None
VerifyEscalating ==
    /\ pc = "verify"
    /\ IF rx = <<>>
       THEN /\ result' = Raised("IndexError")
            /\ pc' = "done"
            /\ UNCHANGED errlog
       ELSE /\ errlog' = errlog \o VerifyChecksum(rx)
            /\ result' = IF Mismatched(rx) THEN ReturnNone ELSE result
            /\ pc' = IF Mismatched(rx) THEN "done" ELSE "decode"
    /\ nverify' = nverify + 1
    /\ UNCHANGED <<i2c, addr, channels, last, op, start, end, command, rx, trace>>

\* self.__verify_checksum(data): data[-1] of an empty buffer is an IndexError
Verify ==
    /\ pc = "verify"
    /\ IF rx = <<>>
       THEN /\ result' = Raised("IndexError")
            /\ pc' = "done"
            /\ UNCHANGED errlog
       ELSE /\ errlog' = errlog \o VerifyChecksum(rx)
            /\ pc' = "decode"
            /\ UNCHANGED result
    /\ nverify' = nverify + 1
    /\ UNCHANGED <<i2c, addr, channels, last, op, start, end, command, rx, trace>>

\* the value the decoding code returns for buffer data
Decoded(o, data, s, e) ==
    CASE o = "info"        -> ReturnValue("tuple", DecodeInfo(data))
      [] o = "current"     -> ReturnValue("map", DecodeCurrent(data, s, e))
      [] o = "calibration" -> ReturnValue("map", DecodeCalibration(data, s, e))

\* faulty variant of Decode: get_info stores the channel count it read
DecodeStoresChannels ==
    /\ pc = "decode"
    /\ result' = IF MaxIndex(op, start, end) >= Len(rx)
                 THEN Raised("IndexError")
                 ELSE Decoded(op, rx, start, end)
    /\ channels' = IF op = "info" /\ MaxIndex(op, start, end) < Len(rx)
                   THEN At(rx, 2) ELSE channels
    /\ pc' = "done"
    /\ UNCHANGED <<i2c, addr, last, nverify, op, start, end, command, rx, trace, errlog>>

\* the decoding loop and the return; an index past the buffer is an IndexError,
\* which no except clause catches
Decode ==
    /\ pc = "decode"
    /\ result' = IF MaxIndex(op, start, end) >= Len(rx)
                 THEN Raised("IndexError")
                 ELSE Decoded(op, rx, start, end)
    /\ pc' = "done"
    /\ UNCHANGED <<i2c, addr, channels, last, nverify, op, start, end, command, rx, trace, errlog>>

\* set_calibration: `pass`, returns None
SetCalibration ==
    /\ pc = "idle"
    /\ op' = "set_calibration"
    /\ result' = ReturnNone
    /\ pc' = "done"
    /\ UNCHANGED <<i2c, addr, channels, last, nverify, start, end, command, rx, trace, errlog>>

\* the arguments and locals of a call are gone once it has returned or unwound
LocalsGone ==
    /\ op' = "info"
    /\ start' = 0
    /\ end' = 0
    /\ command' = <<>>
    /\ rx' = <<>>
    /\ result' = NoResult
    /\ trace' = <<>>
    /\ errlog' = <<>>
    /\ nverify' = 0

\* the call returns (or unwinds); the driver is ready for the next query
Return ==
    /\ pc = "done"
    /\ pc' = "idle"
    /\ LocalsGone
    /\ UNCHANGED <<i2c, addr, channels, last>>

\* what the caller and the bus saw of the query that is returning
Summary ==
    [valid |-> TRUE, op |-> op, start |-> start, end |-> end,
     oks |-> [k \in 1 .. Len(trace) |-> trace[k].ok], rx |-> rx,
     command |-> command, result |-> result]

\* Return, with the returning query written to the history
ReturnRemember ==
    /\ pc = "done"
    /\ pc' = "idle"
    /\ LocalsGone
    /\ last' = Summary
    /\ UNCHANGED <<i2c, addr, channels>>

Next ==
    \/ \E o \in Ops, s \in 0 .. MaxChannel, e \in 0 .. MaxChannel : Call(o, s, e)
    \/ WriteOk
    \/ WriteFault
    \/ Sleep
    \/ \E base \in Bases, skew \in {0, 1}, short \in 0 .. MaxShort : ReadOk(base, skew, short)
    \/ ReadFault
    \/ ReadBadLength
    \/ Verify
    \/ Decode
    \/ SetCalibration
    \/ Return

Spec == Init /\ [][Next]_vars

\* Queries in sequence, each remembered for the next: the same actions over
\* fewer arguments and device answers
RepeatArgs == {<<1, 1>>, <<1, 2>>, <<2, 1>>}
RepeatBases == {<<0, 3, 232>>, <<255, 255, 255>>}

NextRepeat ==
    \/ \E o \in Ops, a \in RepeatArgs : Call(o, a[1], a[2])
    \/ WriteOk
    \/ WriteFault
    \/ Sleep
    \/ \E base \in RepeatBases, skew \in {0, 1}, short \in 0 .. MaxShort :
          ReadOk(base, skew, short)
    \/ ReadFault
    \/ Verify
    \/ Decode
    \/ SetCalibration
    \/ ReturnRemember

SpecRepeat == Init /\ [][NextRepeat]_vars

----------------------------------------------------------------------------
(* Vocabulary of the properties *)

Writes == SelectSeq(trace, LAMBDA ev : ev.kind = "writeto")
Reads == SelectSeq(trace, LAMBDA ev : ev.kind = "readfrom")

\* a bus operation of the running query raised a transport fault
BusFaulted == \E k \in 1 .. Len(trace) : ~trace[k].ok /\ trace[k].nbytes >= 1

\* the read of the running query handed back a buffer
ReadDone == \E k \in 1 .. Len(trace) : trace[k].kind = "readfrom" /\ trace[k].ok

\* the running query has been through checksum verification
Verified == op # "info" /\ ReadDone /\ rx # <<>> /\ pc \in {"decode", "done"}

MismatchLogged == \E k \in 1 .. Len(errlog) : errlog[k].msg = "Mismatched Checksum"

\* the buffer without its trailing byte
DataBytes(data) == SubSeq(data, 1, Len(data) - 1)

RangeQuery == op \in {"current", "calibration"}

----------------------------------------------------------------------------
(* C1 *)

\* C1: every frame written to the bus is the 8 bytes
\* [0x92, 0x6A, code, a, b, 0, 0, checksum], code 2/1/3 for
\* get_info/get_current/get_calibration, a = start and b = end (0 and 0 for
\* get_info), checksum the sum of the first seven bytes modulo 256.
C1_FrameLayout ==
    \A k \in 1 .. Len(trace) :
        trace[k].kind = "writeto" =>
            LET f == trace[k].data
            IN  /\ Len(f) = 8
                /\ f[1] = 146
                /\ f[2] = 106
                /\ f[3] = (CASE op = "info" -> 2 [] op = "current" -> 1
                             [] op = "calibration" -> 3)
                /\ f[4] = (IF op = "info" THEN 0 ELSE start)
                /\ f[5] = (IF op = "info" THEN 0 ELSE end)
                /\ f[6] = 0
                /\ f[7] = 0
                /\ f[8] = (f[1] + f[2] + f[3] + f[4] + f[5] + f[6] + f[7]) % 256
                /\ f[8] \in 0 .. 255

\* a current frame for channels 1..6 is on the bus; its seven bytes sum to
\* 260, so the checksum has wrapped to 4
C1_Witness ==
    /\ op = "current" /\ start = 1 /\ end = 6
    /\ Len(trace) >= 1
    /\ trace[1].kind = "writeto"
    /\ trace[1].data = <<146, 106, 1, 1, 6, 0, 0, 4>>

----------------------------------------------------------------------------
(* C2 *)

\* C2: checksum verification flags a response if and only if its last byte
\* differs from the sum of the preceding bytes modulo 256.
C2_FlagIffModSumDiffers ==
    Verified =>
        (MismatchLogged <=> rx[Len(rx)] # SumSeq(DataBytes(rx)) % 256)

----------------------------------------------------------------------------
(* C3 *)

Ceil5(n) == (n + 4) \div 5
Min(a, b) == IF a < b THEN a ELSE b

\* C3: a current query over a range with end - start >= 5 that returns its
\* map has written ceil((end-start+1)/5) command frames, the j-th for the
\* sub-range [start+5(j-1), min(start+5j-1, end)], and has read once per frame.
C3_Chunked ==
    (pc = "done" /\ op = "current" /\ end - start >= 5 /\ result.kind = "map") =>
        /\ Len(Writes) = Ceil5(end - start + 1)
        /\ Len(Reads) = Len(Writes)
        /\ \A j \in 1 .. Len(Writes) :
              /\ Writes[j].data[4] = start + 5 * (j - 1)
              /\ Writes[j].data[5] = Min(start + 5 * j - 1, end)
              /\ Writes[j].data[5] - Writes[j].data[4] <= 4

----------------------------------------------------------------------------
(* C4 *)

\* C4: a query in which a bus operation faulted returns None and does not
\* raise, whichever operation faulted and whichever query it is.
C4_FaultGivesNone ==
    (pc = "done" /\ BusFaulted) => result = ReturnNone

----------------------------------------------------------------------------
(* C5 *)

\* C5: a current or calibration query whose read handed back a buffer of the
\* requested length returns a map, and the map is the one it returns for the
\* same data bytes whatever the trailing checksum byte is.
C5_MismatchNotEscalated ==
    (pc = "done" /\ RangeQuery /\ ReadDone /\ Len(rx) = ReadLength(op, start, end)) =>
        /\ result.kind = "map"
        /\ \A c \in {SumSeq(DataBytes(rx)) % 256, 0, 255} :
              result = Decoded(op, Append(DataBytes(rx), c), start, end)

\* a query has logged a checksum mismatch and returned a non-empty map
C5_Witness ==
    /\ pc = "done" /\ RangeQuery
    /\ Len(rx) = ReadLength(op, start, end)
    /\ MismatchLogged
    /\ rx[Len(rx)] # SumSeq(DataBytes(rx)) % 256
    /\ result.kind = "map"
    /\ DOMAIN result.val # {}

----------------------------------------------------------------------------
(* C6 *)

\* C6: every read is directly preceded by one settle delay, and that by one
\* successful write of the query's command frame; a delay only follows a
\* successful write; a write is the first bus operation of the query or
\* directly follows a read.
C6_WriteDelayRead ==
    \A k \in 1 .. Len(trace) :
        /\ trace[k].kind = "readfrom" =>
              /\ k >= 3
              /\ trace[k - 1].kind = "sleep"
              /\ trace[k - 2].kind = "writeto"
              /\ trace[k - 2].ok
              /\ trace[k - 2].data = command
              /\ Len(command) = 8
        /\ trace[k].kind = "sleep" =>
              /\ k >= 2
              /\ trace[k - 1].kind = "writeto"
              /\ trace[k - 1].ok
        /\ trace[k].kind = "writeto" =>
              \/ k = 1
              \/ trace[k - 1].kind = "readfrom"

\* a query has read from the bus
C6_Witness ==
    /\ Len(trace) = 3
    /\ trace[3].kind = "readfrom"
    /\ trace[3].ok
    /\ pc \in {"verify", "decode"}

----------------------------------------------------------------------------
(* C7 *)

\* decoding of one unchunked response for n channels from channel c on, three
\* bytes at a time from the head of the buffer, as a set of <<channel, value>>
RECURSIVE WholeRange(_, _, _)
WholeRange(data, c, n) ==
    IF n = 0 THEN {}
    ELSE {<<c, data[1] * 65536 + data[2] * 256 + data[3]>>}
            \cup WholeRange(SubSeq(data, 4, Len(data)), c + 1, n - 1)

\* the entries of a returned map as a set of <<channel, value>>
Entries(m) == {<<k[2], m[k].num>> : k \in DOMAIN m}

\* the bus raised no fault and handed back as many bytes as were asked for
FaultFree == ~BusFaulted /\ ReadDone /\ Len(rx) = ReadLength(op, start, end)

\* C7: on a fault-free bus get_current(start, end), start <= end, returns a
\* map with exactly end-start+1 entries, one per channel start..end, whose
\* content is the decoding of one 3*(end-start+1)+1 byte response for the
\* whole range.
C7_WholeRangeMap ==
    (pc = "done" /\ op = "current" /\ start <= end /\ FaultFree) =>
        /\ result.kind = "map"
        /\ Len(rx) = 3 * (end - start + 1) + 1
        /\ Cardinality(DOMAIN result.val) = end - start + 1
        /\ {k[2] : k \in DOMAIN result.val} = start .. end
        /\ \A k \in DOMAIN result.val : k[1] = "SENSOR_" /\ result.val[k].den = 1
        /\ Entries(result.val) = WholeRange(rx, start, end - start + 1)

\* a fault-free current query over six channels has returned
C7_Witness ==
    /\ pc = "done" /\ op = "current" /\ FaultFree
    /\ start = 1 /\ end = 6
    /\ result.kind = "map"
    /\ Cardinality(DOMAIN result.val) = 6

----------------------------------------------------------------------------
(* C8 *)

\* C8: a current or calibration query whose read handed back fewer bytes
\* than asked for ends in a failure and returns no map.
C8_ShortBufferFails ==
    (pc = "done" /\ RangeQuery /\ ReadDone /\ Len(rx) < ReadLength(op, start, end)) =>
        result.kind \in {"raised", "none"}

----------------------------------------------------------------------------
(* C9 *)

----------------------------------------------------------------------------
(* C10 *)

\* C10: in every map get_calibration returns from a full-length response,
\* the value of channel start+i is msb*256 + lsb for the bytes at offsets 2i,
\* 2i+1, undivided; the trailing byte lies past every offset read; the map
\* has exactly end-start+1 entries, keyed start..end.
C10_CalibrationValue ==
    (pc = "done" /\ op = "calibration" /\ result.kind = "map"
        /\ Len(rx) = ReadLength(op, start, end)) =>
        /\ Cardinality(DOMAIN result.val) = end - start + 1
        /\ DOMAIN result.val = {<<"SENSOR_", c>> : c \in start .. end}
        /\ \A i \in 0 .. (end - start) :
              LET v == result.val[<<"SENSOR_", start + i>>]
              IN  /\ v.den = 1
                  /\ v.num = rx[2 * i + 1] * 256 + rx[2 * i + 2]
                  /\ 2 * i + 2 < Len(rx)

\* a returned calibration value uses both bytes: 3*256 + 232
C10_Witness ==
    /\ pc = "done" /\ op = "calibration" /\ result.kind = "map"
    /\ start = 3 /\ end = 4
    /\ Len(rx) = 5
    /\ result.val[<<"SENSOR_", 3>>].num = 1000

----------------------------------------------------------------------------
(* C11 *)

\* C11: every read asks the bus for 7 bytes in get_info, 3*(end-start+1)+1
\* in get_current and 2*(end-start+1)+1 in get_calibration.
C11_ReadLength ==
    \A k \in 1 .. Len(trace) :
        trace[k].kind = "readfrom" =>
            trace[k].nbytes =
                (CASE op = "info" -> 7
                   [] op = "current" -> 3 * (end - start + 1) + 1
                   [] op = "calibration" -> 2 * (end - start + 1) + 1)

\* a calibration read over channels 1..6 has asked for 13 bytes and got them
C11_Witness ==
    /\ op = "calibration" /\ start = 1 /\ end = 6
    /\ Len(trace) = 3
    /\ trace[3].kind = "readfrom"
    /\ trace[3].nbytes = 13
    /\ Len(rx) = 13

----------------------------------------------------------------------------
(* C12 *)

\* the bus outcomes of the running query, operation by operation
Oks == [k \in 1 .. Len(trace) |-> trace[k].ok]

\* the running query repeats the most recent one: same query, same arguments,
\* same bus outcomes, same bytes from the device
RepeatsLast ==
    /\ last.valid
    /\ last.op = op
    /\ op = "info" \/ (last.start = start /\ last.end = end)
    /\ last.oks = Oks
    /\ last.rx = rx

----------------------------------------------------------------------------
(* C13 *)

\* the kinds of the bus operations of the running query
Kinds == [k \in 1 .. Len(trace) |-> trace[k].kind]

\* C13: a current query over [start, start] never writes or reads twice; on a
\* fault-free bus it ends after exactly one write, one delay and one read,
\* with a one-entry map for channel start.
C13_SingleChannel ==
    (op = "current" /\ start = end /\ pc # "idle") =>
        /\ Len(Writes) <= 1
        /\ Len(Reads) <= 1
        /\ (pc = "done" /\ FaultFree) =>
              /\ Kinds = <<"writeto", "sleep", "readfrom">>
              /\ result.kind = "map"
              /\ DOMAIN result.val = {<<"SENSOR_", start>>}
              /\ Cardinality(DOMAIN result.val) = 1

\* a fault-free current query over channel 3 alone has returned
C13_Witness ==
    /\ pc = "done" /\ op = "current" /\ start = 3 /\ end = 3
    /\ FaultFree
    /\ result.kind = "map"
    /\ Len(trace) = 3

----------------------------------------------------------------------------
(* C14 *)

\* C14: a faulted bus operation is the last bus operation of its query and
\* the query has ended; after a faulted write there is no delay and no read,
\* and the query has returned None.
C14_NoRetry ==
    \A k \in 1 .. Len(trace) :
        ~trace[k].ok =>
            /\ k = Len(trace)
            /\ pc = "done"
            /\ trace[k].kind = "writeto" =>
                  /\ k = 1
                  /\ Len(Reads) = 0
                  /\ result = ReturnNone

\* a query has ended on a faulted write
C14_Witness ==
    /\ pc = "done"
    /\ Len(trace) = 1
    /\ trace[1].kind = "writeto"
    /\ ~trace[1].ok
    /\ result = ReturnNone

----------------------------------------------------------------------------
(* C15 *)

\* C15: get_info and get_calibration are one round trip whatever the range:
\* never a second write or read, exactly one write once the query is past its
\* write, that write carrying the whole range and the read asking for the
\* whole response.
C15_SingleRoundTrip ==
    (op \in {"info", "calibration"} /\ pc # "idle") =>
        /\ Len(Writes) <= 1
        /\ Len(Reads) <= 1
        /\ pc # "write" => Len(Writes) = 1
        /\ \A k \in 1 .. Len(trace) :
              /\ (trace[k].kind = "writeto" /\ op = "calibration") =>
                    (trace[k].data[4] = start /\ trace[k].data[5] = end)
              /\ (trace[k].kind = "readfrom" /\ op = "calibration") =>
                    trace[k].nbytes = 2 * (end - start + 1) + 1

\* a calibration query over six channels has returned all six from one round trip
C15_Witness ==
    /\ pc = "done" /\ op = "calibration" /\ start = 1 /\ end = 6
    /\ Len(Writes) = 1
    /\ Len(Reads) = 1
    /\ result.kind = "map"
    /\ Cardinality(DOMAIN result.val) = 6

----------------------------------------------------------------------------
(* C16 *)

\* C16: a current or calibration query has not verified before its read has
\* returned, and has verified exactly once when it decodes and when it ends
\* after a successful read; get_info never verifies and returns bytes 0, 1, 2
\* of its response.
C16_VerifyOnceBeforeDecode ==
    /\ RangeQuery =>
          /\ pc \in {"write", "sleep", "read", "verify"} => nverify = 0
          /\ pc = "decode" => nverify = 1
          /\ (pc = "done" /\ ReadDone) => nverify = 1
          /\ (pc = "done" /\ ~ReadDone) => nverify = 0
          /\ result.kind = "map" => nverify = 1
    /\ (op = "info" /\ pc # "idle") =>
          /\ nverify = 0
          /\ ~MismatchLogged
          /\ (pc = "done" /\ ReadDone /\ Len(rx) = 7) =>
                result = [kind |-> "tuple", exc |-> "", val |-> <<rx[1], rx[2], rx[3]>>]

\* a range query has verified a flagged response and is about to decode it
C16_Witness ==
    /\ RangeQuery
    /\ pc = "decode"
    /\ nverify = 1
    /\ MismatchLogged
    /\ result.kind = "pending"

----------------------------------------------------------------------------
(* C17 *)

\* C17: every command frame written by a current or calibration query has
\* 1 <= start <= end <= channels in its two parameter bytes.
C17_ValidRangeOnBus ==
    RangeQuery =>
        \A k \in 1 .. Len(trace) :
            trace[k].kind = "writeto" =>
                /\ 1 <= trace[k].data[4]
                /\ trace[k].data[4] <= trace[k].data[5]
                /\ trace[k].data[5] <= channels

----------------------------------------------------------------------------
(* C18 *)

\* C18: the bus handle, the device address and the channel count have their
\* construction-time values in every state, and every write and read of a
\* query is addressed to that device address.
C18_ConfigUnchanged ==
    /\ i2c = [bus |-> 0, pins |-> <<"P9", "P10">>]
    /\ addr = 42
    /\ channels = 6
    /\ \A k \in 1 .. Len(trace) :
          trace[k].kind \in {"writeto", "readfrom"} => trace[k].addr = 42

\* after a query that ended on a fault, an identity query has read the
\* device's channel count
C18_Witness ==
    /\ last.valid
    /\ \E k \in 1 .. Len(last.oks) : ~last.oks[k]
    /\ pc = "done" /\ op = "info"
    /\ result.kind = "tuple"
    /\ result.val[3] # channels

====
